---- MODULE Spec2Model ----
(***************************************************************************)
(* Model of exercice.py: a 16-bit PCM WAVE codec.                          *)
(*   - merge_channels / separate_channels  (channel interleaving)          *)
(*   - create_headers                      (the 44-byte RIFF/WAVE header)  *)
(*   - convert_to_bytes / convert_to_samples (float <-> int16)             *)
(*   - write_wave_file / read_wave_file    (file I/O through `with open`)  *)
(*                                                                         *)
(* Floats are modelled as exact rationals [num, den].  Python integers are *)
(* unbounded; the header sizes, which may exceed 2^31, are kept as two     *)
(* base-2^16 limbs [hi, lo].  A raised exception is a result record whose  *)
(* err field names the exception.                                          *)
(***************************************************************************)
EXTENDS Integers, Sequences, FiniteSets, TLC

VARIABLES
    pc,          \* position of the caller in the scenario being run
    samples,     \* the sample list handed to convert_to_bytes / write_wave_file
    data_bytes,  \* outcome of convert_to_bytes(samples)
    decoded,     \* outcome of convert_to_samples on the unpacked integers
    num_samples, \* argument of create_headers
    headers,     \* outcome of create_headers(num_samples)
    headers_bytes, \* outcome of headers_struct.pack(*headers)
    channels,    \* argument of merge_channels
    merged,      \* merge_channels(channels)
    separated,   \* outcome of separate_channels(merged, len(channels))
    disk,        \* content of the file on disk: [exists, bytes]
    out_file,    \* handle opened by write_wave_file: "none" | "open" | "closed"
    in_file,     \* handle opened by read_wave_file:  "none" | "open" | "closed"
    write_result,\* outcome of write_wave_file
    header_data, \* headers parsed by read_wave_file
    read_result  \* outcome of read_wave_file

vars == <<pc, samples, data_bytes, decoded, num_samples, headers,
          headers_bytes, channels,
          merged, separated, disk, out_file, in_file, write_result,
          header_data, read_result>>

----------------------------------------------------------------------------
(* Bounds of the model *)

MaxDen == 3
MaxNum == 4
MaxLen == 2
MaxChannels == 3
MaxFrames == 2
MaxSmallCount == 50
MaxNear == 20
MaxDeclared == 5

----------------------------------------------------------------------------
(* Module constants, exercice.py lines 10-22 *)

SAMPLING_FREQ == 44100
SAMPLE_BITS == 16
SAMPLE_WIDTH == SAMPLE_BITS \div 8
MAX_SAMPLE_VALUE == 2 ^ (SAMPLE_BITS - 1) - 1

\* A struct format is the sequence of its field codes; "<" (little-endian,
\* no alignment) is implied throughout.
RIFF_HEADER_STRUCT == <<"4s", "I", "4s">>
FORMAT_HEADER_STRUCT == <<"4s", "I", "H", "H", "I", "I", "H", "H">>
DATA_HEADER_STRUCT == <<"4s", "I">>
WAVE_FILE_HEADERS_STRUCT ==
    RIFF_HEADER_STRUCT \o FORMAT_HEADER_STRUCT \o DATA_HEADER_STRUCT

\* Field names of the WaveFileHeaders namedtuple, in order.
WaveFileHeaders ==
    <<"riff_id", "file_size", "wave", "fmt_id", "fmt_size", "wav_type",
      "num_channels", "sampling_freq", "bytes_per_second",
      "bytes_per_sample", "sample_bits", "data_id", "data_size">>

----------------------------------------------------------------------------
(* Python values *)

NoError == "none"
Ok(v) == [err |-> NoError, val |-> v]
Raise(e) == [err |-> e, val |-> <<>>]
NotRun == [err |-> "not run", val |-> <<>>]

\* Unbounded non-negative integers (the header fields) as two limbs in base
\* 2^16; the samples' integers stay plain, they never leave 32 bits.
Base == 2 ^ 16
BigNorm(h, l) == [hi |-> h + (l \div Base), lo |-> l % Base]
BigOf(n) == BigNorm(0, n)
BigAddSmall(b, k) == BigNorm(b.hi, b.lo + k)
BigMulSmall(b, k) == BigNorm(b.hi * k, b.lo * k)
BigFloorDiv2(b) == [hi |-> b.hi \div 2, lo |-> ((b.hi % 2) * Base + b.lo) \div 2]
BigIsSmall(b) == b.hi = 0
FitsU32(b) == b.hi >= 0 /\ b.hi < Base

\* Rationals standing for Python floats.
Rat(n, d) == [num |-> n, den |-> d]
RatLeq(a, b) == a.num * b.den <= b.num * a.den
RatNeg(a) == Rat(-a.num, a.den)
RatSub(a, b) == Rat(a.num * b.den - b.num * a.den, a.den * b.den)
RatAbs(a) == IF a.num < 0 THEN RatNeg(a) ELSE a
One == Rat(1, 1)
Half == Rat(1, 2)
InRange(s) == RatLeq(RatNeg(One), s) /\ RatLeq(s, One)

----------------------------------------------------------------------------
(* struct *)

FieldSize(code) ==
    CASE code = "4s" -> 4
      [] code = "I" -> 4
      [] code = "H" -> 2
      [] code = "h" -> 2

RECURSIVE calcsize(_)
calcsize(fmt) ==
    IF fmt = <<>> THEN 0 ELSE FieldSize(Head(fmt)) + calcsize(Tail(fmt))

\* Two little-endian bytes of an integer in 0 .. 2^16 - 1.
LE16(u) == <<u % 256, u \div 256>>
FromLE16(b) == b[1] + 256 * b[2]

\* A pack that never range-checks: out-of-range values wrap silently.
PackWrap(code, v) == TRUE

\* Whether struct.pack accepts the value for the field code.
PackAccepts(code, v) ==
    CASE code = "4s" -> TRUE
      [] code = "I" -> FitsU32(v)
      [] code = "H" -> v.hi = 0
      [] code = "h" -> v >= -(Base \div 2) /\ v < Base \div 2

\* The bytes of one accepted value.
PackField(code, v) ==
    CASE code = "4s" -> v
      [] code = "I" -> LE16(v.lo) \o LE16(v.hi % Base)
      [] code = "H" -> LE16(v.lo)
      [] code = "h" -> LE16(v % Base)

UnpackField(code, b) ==
    CASE code = "4s" -> b
      [] code = "I" -> [hi |-> FromLE16(SubSeq(b, 3, 4)), lo |-> FromLE16(SubSeq(b, 1, 2))]
      [] code = "H" -> [hi |-> 0, lo |-> FromLE16(b)]
      [] code = "h" -> IF FromLE16(b) >= Base \div 2 THEN FromLE16(b) - Base
                       ELSE FromLE16(b)

RECURSIVE PackAll(_, _)
PackAll(fmt, values) ==
    IF fmt = <<>> THEN <<>>
    ELSE PackField(Head(fmt), Head(values)) \o PackAll(Tail(fmt), Tail(values))

\* struct.Struct(fmt).pack(*values): struct.error when a value is out of the
\* range of its field, otherwise the concatenated bytes.
pack(fmt, values) ==
    IF \E i \in 1..Len(fmt) : ~PackAccepts(fmt[i], values[i])
    THEN Raise("struct.error")
    ELSE Ok(PackAll(fmt, values))

RECURSIVE UnpackAll(_, _)
UnpackAll(fmt, b) ==
    IF fmt = <<>> THEN <<>>
    ELSE <<UnpackField(Head(fmt), SubSeq(b, 1, FieldSize(Head(fmt))))>>
         \o UnpackAll(Tail(fmt), SubSeq(b, FieldSize(Head(fmt)) + 1, Len(b)))

\* struct.Struct(fmt).unpack(buffer): struct.error unless the buffer has
\* exactly calcsize(fmt) bytes.
unpack(fmt, b) ==
    IF Len(b) # calcsize(fmt) THEN Raise("struct.error")
    ELSE Ok(UnpackAll(fmt, b))

\* The format f"<{n}h".
HFormat(n) == [i \in 1..n |-> "h"]

----------------------------------------------------------------------------
(* Sample codec *)

\* int(x) of a float x = a / d: truncation toward zero.
IntFloor(x) == x.num \div x.den

IntTrunc(x) ==
    IF x.num >= 0 THEN x.num \div x.den ELSE -((-x.num) \div x.den)

RatMulInt(x, k) == Rat(x.num * k, x.den)

\* Decoding that unpacks the 16-bit words as unsigned.
UnsignedWord(b) == FromLE16(b)

\* A little-endian signed 16-bit word of the data, as unpacked by "h".
SignedWord(b) == UnpackField("h", b)

convert_to_bytes(s) ==
    LET int_samples == [i \in 1..Len(s) |-> IntTrunc(RatMulInt(s[i], MAX_SAMPLE_VALUE))]
    IN  pack(HFormat(Len(s)), int_samples)

convert_to_samples(sample_bytes) ==
    [i \in 1..Len(sample_bytes) |-> Rat(sample_bytes[i], MAX_SAMPLE_VALUE)]

\* list(struct.Struct(f"<{n}h").unpack(raw_bytes)), as read_wave_file does.
UnpackSamples(n, raw_bytes) ==
    IF Len(raw_bytes) # 2 * n THEN Raise("struct.error")
    ELSE Ok([i \in 1..n |-> SignedWord(SubSeq(raw_bytes, 2 * i - 1, 2 * i))])

----------------------------------------------------------------------------
(* Headers *)

\* The four-byte tags b"RIFF", b"WAVE", b"fmt " and b"data".
RIFF == <<82, 73, 70, 70>>
WAVE == <<87, 65, 86, 69>>
FMT == <<102, 109, 116, 32>>
DATA == <<100, 97, 116, 97>>

\* A file size that counts all the header bytes.
riff_file_size_whole(data_size) ==
    BigAddSmall(data_size, calcsize(WAVE_FILE_HEADERS_STRUCT))

riff_file_size(data_size) ==
    BigAddSmall(data_size, calcsize(WAVE_FILE_HEADERS_STRUCT) - 8)

create_headers(n) ==
    LET data_size == BigMulSmall(n, SAMPLE_WIDTH)
    IN  [riff_id |-> RIFF,
         file_size |-> riff_file_size(data_size),
         wave |-> WAVE,
         fmt_id |-> FMT,
         fmt_size |-> BigOf(calcsize(FORMAT_HEADER_STRUCT) - 8),
         wav_type |-> BigOf(1),
         num_channels |-> BigOf(2),
         sampling_freq |-> BigOf(SAMPLING_FREQ),
         bytes_per_second |-> BigOf(SAMPLING_FREQ * SAMPLE_WIDTH),
         bytes_per_sample |-> BigOf(SAMPLE_WIDTH),
         sample_bits |-> BigOf(SAMPLE_BITS),
         data_id |-> DATA,
         data_size |-> data_size]

\* *headers: the fields of the namedtuple in declaration order.
HeaderValues(h) == [i \in 1..Len(WaveFileHeaders) |-> h[WaveFileHeaders[i]]]

\* WaveFileHeaders(*values).
HeaderOf(values) ==
    [f \in {WaveFileHeaders[i] : i \in 1..Len(WaveFileHeaders)} |->
        values[CHOOSE i \in 1..Len(WaveFileHeaders) : WaveFileHeaders[i] = f]]

----------------------------------------------------------------------------
(* Channel interleaving *)

Min(S) == CHOOSE x \in S : \A y \in S : x <= y

\* for values in zip(*channels): final_list += values
RECURSIVE MergeFrom(_, _, _)
MergeFrom(ch, i, last) ==
    IF i > last THEN <<>>
    ELSE [c \in 1..Len(ch) |-> ch[c][i]] \o MergeFrom(ch, i + 1, last)

merge_channels(ch) ==
    IF ch = <<>> THEN <<>>
    ELSE MergeFrom(ch, 1, Min({Len(ch[c]) : c \in 1..Len(ch)}))

\* A de-interleaving that reads each channel as one contiguous block.
separate_channels_planar(s, n) ==
    IF n = 0 THEN Raise("ZeroDivisionError")
    ELSE Ok([j \in 1..n |-> [i \in 1..(Len(s) \div n) |-> s[(Len(s) \div n) * (j - 1) + i]]])

separate_channels(s, n) ==
    IF n = 0 THEN Raise("ZeroDivisionError")
    ELSE Ok([j \in 1..n |-> [i \in 1..(Len(s) \div n) |-> s[n * (i - 1) + j]]])

----------------------------------------------------------------------------
(* Files *)

\* A handle that is released only when the block ends normally.
close_on_success(handle, outcome) ==
    IF outcome.err = NoError THEN "closed" ELSE handle

\* Leaving a `with open(...) as f:` block, normally or by an exception,
\* closes the handle.
with_exit(handle, outcome) == "closed"

\* f.read(n): the next n bytes from offset `from`, fewer at end of file.
\* n is a header-sized integer (limbs).
FileRead(bytes, from, n) ==
    IF BigIsSmall(n) /\ from + n.lo <= Len(bytes)
    THEN SubSeq(bytes, from + 1, from + n.lo)
    ELSE SubSeq(bytes, from + 1, Len(bytes))

\* Lines 124-126 of read_wave_file: read and parse the headers.
ReadHeaders(bytes) ==
    LET size == calcsize(WAVE_FILE_HEADERS_STRUCT)
        raw == FileRead(bytes, 0, BigOf(size))
        fields == unpack(WAVE_FILE_HEADERS_STRUCT, raw)
    IN  IF fields.err # NoError THEN fields ELSE Ok(HeaderOf(fields.val))

\* Lines 128-132 of read_wave_file: read and decode the samples.
ReadSamples(bytes, hdr) ==
    LET sample_count == BigFloorDiv2(hdr.data_size)
        raw_bytes == FileRead(bytes, calcsize(WAVE_FILE_HEADERS_STRUCT),
                              BigMulSmall(sample_count, 2))
        sample_bytes ==
            IF BigIsSmall(sample_count)
            THEN UnpackSamples(sample_count.lo, raw_bytes)
            ELSE Raise("struct.error")
    IN  IF sample_bytes.err # NoError THEN sample_bytes
        ELSE Ok([header |-> hdr, samples |-> convert_to_samples(sample_bytes.val)])

----------------------------------------------------------------------------
(* Inputs *)

SampleValues == {Rat(n, d) : n \in -MaxNum..MaxNum, d \in 1..MaxDen}

SeqsUpTo(S, n) == UNION {[1..k -> S] : k \in 0..n}

\* The variables of the scenarios that are not being run.
CodecIdle == samples = <<>> /\ data_bytes = NotRun /\ decoded = NotRun
HeadersIdle ==
    num_samples = BigOf(0) /\ headers = NotRun /\ headers_bytes = NotRun
ChannelsIdle == channels = <<>> /\ merged = <<>> /\ separated = NotRun
FileIdle ==
    /\ disk = [exists |-> FALSE, bytes |-> <<>>]
    /\ out_file = "none"
    /\ in_file = "none"
    /\ write_result = NotRun
    /\ header_data = NotRun
    /\ read_result = NotRun

----------------------------------------------------------------------------
(* Scenario: encode a sample list, then decode the packed integers *)

InitCodec ==
    /\ pc = "codec_start"
    /\ samples \in SeqsUpTo(SampleValues, MaxLen)
    /\ data_bytes = NotRun
    /\ decoded = NotRun
    /\ HeadersIdle
    /\ ChannelsIdle
    /\ FileIdle

ConvertToBytes ==
    /\ pc = "codec_start"
    /\ data_bytes' = convert_to_bytes(samples)
    /\ pc' = "codec_encoded"
    /\ UNCHANGED <<samples, decoded, num_samples, headers, headers_bytes,
                   channels, merged,
                   separated, disk, out_file, in_file, write_result,
                   header_data, read_result>>

ConvertToSamples ==
    /\ pc = "codec_encoded"
    /\ data_bytes.err = NoError
    /\ LET ints == UnpackSamples(Len(data_bytes.val) \div 2, data_bytes.val)
       IN  decoded' = Ok(convert_to_samples(ints.val))
    /\ pc' = "codec_decoded"
    /\ UNCHANGED <<samples, data_bytes, num_samples, headers, headers_bytes,
                   channels, merged,
                   separated, disk, out_file, in_file, write_result,
                   header_data, read_result>>

NextCodec == ConvertToBytes \/ ConvertToSamples

SpecCodec == InitCodec /\ [][NextCodec]_vars

----------------------------------------------------------------------------
(* Scenario: build the headers for a sample count, then pack them *)

\* Sample counts: the small ones, and those around 2^31 where the sizes
\* stop fitting in 32 bits.
HeaderCounts ==
    {BigOf(n) : n \in 0..MaxSmallCount}
    \cup {[hi |-> Base \div 2 - 1, lo |-> Base - k] : k \in 1..MaxNear}
    \cup {[hi |-> Base \div 2, lo |-> k] : k \in 0..MaxNear}

InitHeaders ==
    /\ pc = "headers_start"
    /\ num_samples \in HeaderCounts
    /\ headers = NotRun
    /\ headers_bytes = NotRun
    /\ CodecIdle
    /\ ChannelsIdle
    /\ FileIdle

CreateHeaders ==
    /\ pc = "headers_start"
    /\ headers' = Ok(create_headers(num_samples))
    /\ pc' = "headers_created"
    /\ UNCHANGED <<samples, data_bytes, decoded, num_samples, headers_bytes,
                   channels, merged, separated, disk, out_file, in_file,
                   write_result, header_data, read_result>>

PackHeaders ==
    /\ pc = "headers_created"
    /\ headers_bytes' = pack(WAVE_FILE_HEADERS_STRUCT, HeaderValues(headers.val))
    /\ pc' = "headers_packed"
    /\ UNCHANGED <<samples, data_bytes, decoded, num_samples, headers,
                   channels, merged, separated, disk, out_file, in_file,
                   write_result, header_data, read_result>>

NextHeaders == CreateHeaders \/ PackHeaders

SpecHeaders == InitHeaders /\ [][NextHeaders]_vars

----------------------------------------------------------------------------
(* Scenario: interleave channels, then de-interleave *)

ChannelValues == {Rat(0, 1), Rat(1, 2)}

InitChannels ==
    /\ pc = "channels_start"
    /\ channels \in SeqsUpTo(SeqsUpTo(ChannelValues, MaxFrames), MaxChannels)
    /\ merged = <<>>
    /\ separated = NotRun
    /\ CodecIdle
    /\ HeadersIdle
    /\ FileIdle

MergeChannels ==
    /\ pc = "channels_start"
    /\ merged' = merge_channels(channels)
    /\ pc' = "channels_merged"
    /\ UNCHANGED <<samples, data_bytes, decoded, num_samples, headers,
                   headers_bytes, channels, separated, disk, out_file, in_file,
                   write_result, header_data, read_result>>

SeparateChannels ==
    /\ pc = "channels_merged"
    /\ separated' = separate_channels(merged, Len(channels))
    /\ pc' = "channels_separated"
    /\ UNCHANGED <<samples, data_bytes, decoded, num_samples, headers,
                   headers_bytes, channels, merged, disk, out_file, in_file,
                   write_result, header_data, read_result>>

NextChannels == MergeChannels \/ SeparateChannels

SpecChannels == InitChannels /\ [][NextChannels]_vars

----------------------------------------------------------------------------
(* Scenario: merge channels, write them to a file, read a file back *)

Quiet == Rat(-2, 3)
Loud == Rat(2, 1)
FileValues == {Quiet, Half}
ByteValues == {0, 255}

\* Channel lists of one common length; one of them may hold a sample
\* outside [-1, 1].
EqualChannels ==
    UNION {[1..c -> [1..l -> FileValues]] : c \in 1..MaxChannels, l \in 0..MaxFrames}

FileChannels ==
    EqualChannels
    \cup {[ch EXCEPT ![1] = [ch[1] EXCEPT ![1] = Loud]] :
             ch \in {x \in EqualChannels : Len(x[1]) >= 1}}

\* Files that were not written by write_wave_file: a well-formed header
\* declaring any data size, followed by any data, cut at any length.
ForeignFiles ==
    LET hdr(d) == [create_headers(BigOf(0)) EXCEPT !.data_size = BigOf(d)]
        head(d) == PackAll(WAVE_FILE_HEADERS_STRUCT, HeaderValues(hdr(d)))
    IN  {head(d) \o data : d \in 0..MaxDeclared, data \in SeqsUpTo(ByteValues, MaxDeclared)}
        \cup {SubSeq(head(d), 1, k) : d \in 0..MaxDeclared,
                                      k \in 0..(calcsize(WAVE_FILE_HEADERS_STRUCT) - 1)}

InitFileWrite ==
    /\ pc = "file_start"
    /\ channels \in FileChannels
    /\ disk = [exists |-> FALSE, bytes |-> <<>>]

InitFileRead ==
    /\ pc = "read_call"
    /\ channels = <<>>
    /\ disk \in {[exists |-> TRUE, bytes |-> b] : b \in ForeignFiles}

InitFile ==
    /\ InitFileWrite \/ InitFileRead
    /\ merged = <<>>
    /\ separated = NotRun
    /\ CodecIdle
    /\ HeadersIdle
    /\ out_file = "none"
    /\ in_file = "none"
    /\ write_result = NotRun
    /\ header_data = NotRun
    /\ read_result = NotRun

\* main(), lines 160-166: the caller interleaves its channels and hands the
\* result to write_wave_file.
MergeForWrite ==
    /\ pc = "file_start"
    /\ merged' = merge_channels(channels)
    /\ samples' = merge_channels(channels)
    /\ pc' = "write_call"
    /\ UNCHANGED <<data_bytes, decoded, num_samples, headers, headers_bytes,
                   channels, separated, disk, out_file, in_file, write_result,
                   header_data, read_result>>

\* write_wave_file, lines 107-111: headers and data are built before the
\* file is opened; an exception here leaves the file untouched.
WriteBuild ==
    /\ pc = "write_call"
    /\ LET hdr == create_headers(BigOf(Len(samples)))
           hb == pack(WAVE_FILE_HEADERS_STRUCT, HeaderValues(hdr))
           db == convert_to_bytes(samples)
       IN  /\ num_samples' = BigOf(Len(samples))
           /\ headers' = Ok(hdr)
           /\ headers_bytes' = hb
           /\ data_bytes' = IF hb.err = NoError THEN db ELSE NotRun
           /\ IF hb.err # NoError
              THEN write_result' = hb /\ pc' = "write_done"
              ELSE IF db.err # NoError
                   THEN write_result' = db /\ pc' = "write_done"
                   ELSE write_result' = NotRun /\ pc' = "write_open"
    /\ UNCHANGED <<samples, decoded, channels, merged, separated, disk,
                   out_file, in_file, header_data, read_result>>

\* Line 113: open(filename, "wb") creates or empties the file.
WriteOpen ==
    /\ pc = "write_open"
    /\ \/ /\ out_file' = "open"
          /\ disk' = [exists |-> TRUE, bytes |-> <<>>]
          /\ pc' = "write_headers"
          /\ UNCHANGED write_result
       \/ /\ write_result' = Raise("OSError")
          /\ pc' = "write_done"
          /\ UNCHANGED <<out_file, disk>>
    /\ UNCHANGED <<samples, data_bytes, decoded, num_samples, headers,
                   headers_bytes, channels, merged, separated, in_file,
                   header_data, read_result>>

\* Line 114: out_file.write(headers_bytes).
WriteHeadersBytes ==
    /\ pc = "write_headers"
    /\ \/ /\ disk' = [disk EXCEPT !.bytes = @ \o headers_bytes.val]
          /\ pc' = "write_data"
          /\ UNCHANGED <<out_file, write_result>>
       \/ /\ write_result' = Raise("OSError")
          /\ out_file' = with_exit(out_file, Raise("OSError"))
          /\ pc' = "write_done"
          /\ UNCHANGED disk
    /\ UNCHANGED <<samples, data_bytes, decoded, num_samples, headers,
                   headers_bytes, channels, merged, separated, in_file,
                   header_data, read_result>>

\* Line 115: out_file.write(data_bytes), then the end of the with block.
WriteDataBytes ==
    /\ pc = "write_data"
    /\ \/ /\ disk' = [disk EXCEPT !.bytes = @ \o data_bytes.val]
          /\ write_result' = Ok(<<>>)
          /\ out_file' = with_exit(out_file, Ok(<<>>))
       \/ /\ write_result' = Raise("OSError")
          /\ out_file' = with_exit(out_file, Raise("OSError"))
          /\ UNCHANGED disk
    /\ pc' = "write_done"
    /\ UNCHANGED <<samples, data_bytes, decoded, num_samples, headers,
                   headers_bytes, channels, merged, separated, in_file,
                   header_data, read_result>>

\* Line 123: open(filename, "rb").
ReadOpen ==
    /\ pc \in {"write_done", "read_call"}
    /\ IF disk.exists
       THEN /\ in_file' = "open"
            /\ pc' = "read_headers"
            /\ UNCHANGED read_result
       ELSE /\ read_result' = Raise("FileNotFoundError")
            /\ pc' = "read_done"
            /\ UNCHANGED in_file
    /\ UNCHANGED <<samples, data_bytes, decoded, num_samples, headers,
                   headers_bytes, channels, merged, separated, disk, out_file,
                   write_result, header_data>>

\* Lines 124-126: a short header makes unpack raise, which leaves the block.
ReadHeaderData ==
    /\ pc = "read_headers"
    /\ header_data' = ReadHeaders(disk.bytes)
    /\ IF ReadHeaders(disk.bytes).err # NoError
       THEN /\ read_result' = ReadHeaders(disk.bytes)
            /\ in_file' = with_exit(in_file, ReadHeaders(disk.bytes))
            /\ pc' = "read_done"
       ELSE /\ pc' = "read_data"
            /\ UNCHANGED <<read_result, in_file>>
    /\ UNCHANGED <<samples, data_bytes, decoded, num_samples, headers,
                   headers_bytes, channels, merged, separated, disk, out_file,
                   write_result>>

\* Lines 128-132: read the data, decode, return; the block ends either way.
ReadSampleData ==
    /\ pc = "read_data"
    /\ read_result' = ReadSamples(disk.bytes, header_data.val)
    /\ in_file' = with_exit(in_file, ReadSamples(disk.bytes, header_data.val))
    /\ pc' = "read_done"
    /\ UNCHANGED <<samples, data_bytes, decoded, num_samples, headers,
                   headers_bytes, channels, merged, separated, disk, out_file,
                   write_result, header_data>>

NextFile ==
    \/ MergeForWrite
    \/ WriteBuild
    \/ WriteOpen
    \/ WriteHeadersBytes
    \/ WriteDataBytes
    \/ ReadOpen
    \/ ReadHeaderData
    \/ ReadSampleData

SpecFile == InitFile /\ [][NextFile]_vars

----------------------------------------------------------------------------
(* All the scenarios together *)

Init == InitCodec \/ InitHeaders \/ InitChannels \/ InitFile

Next == NextCodec \/ NextHeaders \/ NextChannels \/ NextFile

Spec == Init /\ [][Next]_vars

----------------------------------------------------------------------------
(* Claims about the codec *)

\* What the claims about the codec speak of, stated without the model's
\* own conversion operators.
Tolerance == Rat(1, MAX_SAMPLE_VALUE)
\* |a - b| <= 1/32767, that is |a - b|.num * 32767 <= |a - b|.den, with the
\* product avoided: both sides are integers.
WithinTolerance(a, b) ==
    RatAbs(RatSub(a, b)).num <= (RatSub(a, b).den * Tolerance.num) \div Tolerance.den
AllInRange(s) == \A i \in 1..Len(s) : InRange(s[i])

\* t is x.num * MAX_SAMPLE_VALUE / x.den with its fraction dropped.
IsTruncatedScale(t, x) ==
    LET a == x.num * MAX_SAMPLE_VALUE
    IN  \/ a >= 0 /\ t >= 0 /\ t * x.den <= a /\ a < (t + 1) * x.den
        \/ a <= 0 /\ t <= 0 /\ t * x.den >= a /\ a > (t - 1) * x.den

\* The two's-complement value of the i-th 16-bit little-endian word of b.
WordAt(b, i) ==
    LET u == b[2 * i - 1] + 256 * b[2 * i]
    IN  IF u >= 32768 THEN u - 65536 ELSE u

\* The scaled value of x lies outside the signed 16-bit range.
ScaledOverflows(x) ==
    \/ x.num * MAX_SAMPLE_VALUE >= 32768 * x.den
    \/ x.num * MAX_SAMPLE_VALUE <= -32769 * x.den

\* C1: for samples all in [-1, 1], decoding the integers packed by
\* convert_to_bytes gives a list of the same length whose elements are each
\* within 1/32767 of the original sample.
C1_RoundTrip ==
    (pc = "codec_decoded" /\ AllInRange(samples)) =>
        /\ decoded.err = NoError
        /\ Len(decoded.val) = Len(samples)
        /\ \A i \in 1..Len(samples) : WithinTolerance(samples[i], decoded.val[i])

C1_Witness ==
    /\ pc = "codec_decoded"
    /\ Len(samples) = 2
    /\ AllInRange(samples)
    /\ samples[1] = Rat(-2, 3)
    /\ decoded.val[1] # samples[1]

\* C7: for samples all in [-1, 1], convert_to_bytes emits for each sample the
\* little-endian signed 16-bit word of v * 32767 truncated toward zero, a value
\* in [-32767, 32767]; [0.5, -0.5] gives the bytes FF 3F 01 C0.
C7_TruncatedEncoding ==
    (pc # "codec_start" /\ AllInRange(samples)) =>
        /\ data_bytes.err = NoError
        /\ Len(data_bytes.val) = 2 * Len(samples)
        /\ \A i \in 1..Len(samples) :
              /\ data_bytes.val[2 * i - 1] \in 0..255
              /\ data_bytes.val[2 * i] \in 0..255
              /\ WordAt(data_bytes.val, i) \in -32767..32767
              /\ IsTruncatedScale(WordAt(data_bytes.val, i), samples[i])
        /\ samples = <<Half, RatNeg(Half)>> => data_bytes.val = <<255, 63, 1, 192>>

C7_Witness ==
    /\ pc = "codec_encoded"
    /\ samples = <<Half, RatNeg(Half)>>
    /\ data_bytes.val = <<255, 63, 1, 192>>

\* C8 as stated: a sample whose scaled integer does not fit in 16 bits is
\* packed without error, the bytes holding the wrapped value.
C8_SilentOverflow ==
    (pc = "codec_encoded" /\ \E i \in 1..Len(samples) : ScaledOverflows(samples[i])) =>
        /\ data_bytes.err = NoError
        /\ Len(data_bytes.val) = 2 * Len(samples)

\* C8 amended: a sample whose scaled integer does not fit in 16 bits is not
\* clamped; packing raises struct.error and no bytes are returned.
C8_OverflowRaises ==
    (pc = "codec_encoded" /\ \E i \in 1..Len(samples) : ScaledOverflows(samples[i])) =>
        /\ data_bytes.err = "struct.error"
        /\ data_bytes.val = <<>>

C8_Witness ==
    /\ pc = "codec_encoded"
    /\ samples = <<Half, Rat(2, 1)>>
    /\ data_bytes.err = "struct.error"

----------------------------------------------------------------------------
(* Claims about the headers *)

\* a - b as a plain integer, for numbers whose difference is small.
BigDiff(a, b) == (a.hi - b.hi) * Base + (a.lo - b.lo)
Twice(b) == [hi |-> 2 * b.hi, lo |-> 2 * b.lo]
IsLimbs(b) == b.hi >= 0 /\ b.lo \in 0..(Base - 1)

\* 36 + 2 * n no longer fits in an unsigned 32-bit field: n >= 2^31 - 18.
SizesOverflow(n) ==
    \/ n.hi >= Base \div 2
    \/ n.hi = Base \div 2 - 1 /\ n.lo >= Base - 18

\* C2: for every sample count, data_size is 2 * sample_count, file_size is
\* 44 - 8 + 2 * sample_count and fmt_size is 16; 0 samples give 0 and 36.
C2_HeaderArithmetic ==
    pc \in {"headers_created", "headers_packed"} =>
        /\ headers.err = NoError
        /\ IsLimbs(headers.val.data_size)
        /\ IsLimbs(headers.val.file_size)
        /\ BigDiff(headers.val.data_size, Twice(num_samples)) = 0
        /\ BigDiff(headers.val.file_size, Twice(num_samples)) = 44 - 8
        /\ headers.val.fmt_size = [hi |-> 0, lo |-> 16]
        /\ num_samples = [hi |-> 0, lo |-> 0] =>
              /\ headers.val.data_size = [hi |-> 0, lo |-> 0]
              /\ headers.val.file_size = [hi |-> 0, lo |-> 36]

C2_Witness ==
    /\ pc = "headers_created"
    /\ num_samples = [hi |-> 0, lo |-> 0]
    /\ headers.val.file_size = [hi |-> 0, lo |-> 36]

\* C9: building a header for a sample count whose data_size or file_size does
\* not fit in 32 bits fails with InvalidArgument and returns no header.
C9_OversizeRejected ==
    (pc \in {"headers_created", "headers_packed"} /\ SizesOverflow(num_samples)) =>
        /\ headers.err = "InvalidArgument"
        /\ headers.val = <<>>

----------------------------------------------------------------------------
(* Claims about the channels *)

SameLength(ch) == \A c, d \in 1..Len(ch) : Len(ch[c]) = Len(ch[d])

\* C3: for C >= 1 channels of one length L, merge_channels puts channels[c][i]
\* at index i * C + c (from 0) and separate_channels(merged, C) returns the C
\* channels of length L, in order.
C3_MergeSeparateInverse ==
    (pc = "channels_separated" /\ Len(channels) >= 1 /\ SameLength(channels)) =>
        /\ Len(merged) = Len(channels) * Len(channels[1])
        /\ \A c \in 1..Len(channels) : \A i \in 1..Len(channels[1]) :
              merged[(i - 1) * Len(channels) + (c - 1) + 1] = channels[c][i]
        /\ separated = Ok(channels)

C3_Witness ==
    /\ pc = "channels_separated"
    /\ channels = <<<<Rat(0, 1), Rat(1, 2)>>, <<Rat(1, 2), Rat(1, 2)>>, <<Rat(0, 1), Rat(0, 1)>>>>
    /\ separated.val = channels

----------------------------------------------------------------------------
(* Claims about the files *)

\* The file holds fewer than 44 bytes, or fewer data bytes than the data_size
\* field (bytes 40..43 of the file, little-endian) declares.
Truncated(bytes) ==
    \/ Len(bytes) < 44
    \/ bytes[43] # 0
    \/ bytes[44] # 0
    \/ bytes[41] + 256 * bytes[42] > Len(bytes) - 44

\* The write has ended (normally or not) on the path that called it.
WriteEnded == pc \in {"write_done", "read_headers", "read_data", "read_done"}

\* C4: writing N in-range samples of C channels and reading the file back
\* returns a header with data_size for N samples and channel count C, and N
\* samples each within 1/32767 of the one written.
C4_FileRoundTrip ==
    (pc = "read_done" /\ write_result.err = NoError) =>
        /\ read_result.err = NoError
        /\ read_result.val.header.data_size = [hi |-> 0, lo |-> 2 * Len(samples)]
        /\ read_result.val.header.num_channels = [hi |-> 0, lo |-> Len(channels)]
        /\ Len(read_result.val.samples) = Len(samples)
        /\ \A i \in 1..Len(samples) :
              WithinTolerance(samples[i], read_result.val.samples[i])

\* The part of C4 that does not involve the channel count.
FileRoundTripSamples ==
    (pc = "read_done" /\ write_result.err = NoError) =>
        /\ read_result.err = NoError
        /\ read_result.val.header.data_size = [hi |-> 0, lo |-> 2 * Len(samples)]
        /\ Len(disk.bytes) = 44 + 2 * Len(samples)
        /\ Len(read_result.val.samples) = Len(samples)
        /\ \A i \in 1..Len(samples) :
              WithinTolerance(samples[i], read_result.val.samples[i])

\* C5: reading a file with fewer than 44 bytes, or with fewer data bytes than
\* its header declares, ends in an error and returns no (header, samples).
C5_TruncatedRejected ==
    (pc = "read_done" /\ disk.exists /\ Truncated(disk.bytes)) =>
        read_result.err # NoError

\* C6: the num_channels field of the headers built for a write is the number
\* of channels the caller supplied.
C6_ChannelCountFromCaller ==
    (WriteEnded /\ channels # <<>> /\ headers.err = NoError) =>
        headers.val.num_channels = [hi |-> 0, lo |-> Len(channels)]

\* C10: when write_wave_file or read_wave_file has ended, on the normal path
\* or on an error path, the handle it opened is closed.
C10_HandlesClosed ==
    /\ WriteEnded => out_file # "open"
    /\ (WriteEnded /\ write_result.err = NoError) => out_file = "closed"
    /\ pc = "read_done" => in_file # "open"
    /\ (pc = "read_done" /\ disk.exists) => in_file = "closed"

C10_Witness ==
    /\ pc = "read_done"
    /\ write_result.err = "OSError"
    /\ out_file = "closed"
    /\ read_result.err = "struct.error"
    /\ in_file = "closed"
    /\ header_data.err = NoError

====
